---- MODULE Spec2Model ----
(***************************************************************************)
(* Model of the data_preparation pipelines:                                *)
(*   src/src/collection/poi_overture.py          (Overture places)         *)
(*   src/src/preparation/public_transport_stop.py (GTFS stops)             *)
(*                                                                         *)
(* Three specifications:                                                   *)
(*   Spec         the two pipeline entry points, statement by statement    *)
(*   SpecFilter   filter_region_places applied to bounded data frames      *)
(*   SpecAddress  the street / housenumber split applied to bounded        *)
(*                free-form addresses                                      *)
(***************************************************************************)
EXTENDS Integers, Sequences, FiniteSets, Bags, TLC

VARIABLES
    entry,              \* the entry point that is running
    pc,                 \* its position
    conn,               \* connection name -> "unopened" | "open" | "closed"
    raised,             \* an exception is in flight (collect_poi_overture)
    region_geoms,       \* number of polygons the region query returns
    index,              \* the loop's current polygon (1-based)
    places_raw,         \* temporal.places_<region>_raw : id -> polygons it intersects
    bad_geoms,          \* polygons whose clip statement the database rejects
    places,             \* temporal.places_<region>, committed rows (bag of ids)
    pending,            \* rows written by the open transaction (bag of ids)
    txn,                \* "idle" | "open" | "aborted"
    committed_polys,    \* history: polygons whose INSERT was committed
    rolled_polys,       \* history: polygons whose transaction was rolled back
    order,              \* history: polygons in the order their INSERT was issued
    pkey,               \* "none" | "added" | "failed" : ADD PRIMARY KEY (id)
    stops,              \* basic.stops : stop_id -> row
    stop_times,         \* basic.stop_times_optimized : stop_id -> route types
    poi_stop,           \* basic.poi_public_transport_stop_<region> (bag of rows)
    remaining_stations, \* temporal.remaining_stations (set of stop ids)
    failed,             \* history: <<pass, polygon>> whose INSERT failed
    attempted,          \* history: <<pass, polygon>> whose INSERT was issued
    bbox_coords,        \* SpecFilter: the region bounding box
    places_df,          \* SpecFilter: the source data frame
    region_places,      \* SpecFilter: the filter's result
    address,            \* SpecAddress: addresses->0->>'freeform'
    street,             \* SpecAddress: the street column
    housenumber         \* SpecAddress: the housenumber column

connVars    == <<entry, pc, conn, raised>>
loopVars    == <<region_geoms, index>>
placesVars  == <<places_raw, bad_geoms, places, pending, txn, committed_polys, rolled_polys,
                 order, pkey>>
transitVars == <<stops, stop_times, poi_stop, remaining_stations, failed, attempted>>
filterVars  == <<bbox_coords, places_df, region_places>>
addressVars == <<address, street, housenumber>>
vars == <<connVars, loopVars, placesVars, transitVars, filterVars, addressVars>>

\* ---------------------------------------------------------------- bounds
MaxPolys == 2       \* polygons in the region geometry set
MaxCoord == 2       \* bounding-box coordinates range over 0..MaxCoord
MaxAddrLen == 5     \* characters in a free-form address

\* SQL NULL, distinct from every text value of the model (texts are
\* sequences of one-character strings).
NULL == <<"NULL">>

Polys == 1..region_geoms

Min(S) == CHOOSE x \in S : \A y \in S : x <= y
Max(S) == CHOOSE x \in S : \A y \in S : y <= x

\* ============================================================ places ====
PlaceIds == {"p1", "p2", "p3"}

\* new_pois for polygon g: the staging rows intersecting g, one per id.
\* The staging table is keyed by id (PRIMARY KEY of ..._raw_no_geom), so
\* DISTINCT ON (p.id) keeps each intersecting row.
new_pois(g) == SetToBag({i \in DOMAIN places_raw : g \in places_raw[i]})

\* The ids of a bag of rows are pairwise distinct.
UniqueIds(b) == \A i \in BagToSet(b) : CopiesIn(i, b) = 1

\* The rows committed for a set S of polygons: the bag sum of new_pois.
RECURSIVE RowsOf(_)
RowsOf(S) ==
    IF S = {} THEN EmptyBag
    ELSE LET g == CHOOSE y \in S : TRUE
         IN  new_pois(g) (+) RowsOf(S \ {g})

\* Database.perform(sql): runs one statement in its own transaction.  A
\* failing statement is logged and rolled back, and perform returns.
perform(ok) == IF ok THEN "committed" ELSE "rolled_back"

\* The position after polygon k of a loop over region_geoms.
AfterPolygon(k, again, after) == IF k < region_geoms THEN again ELSE after

\* ---- collect_poi_overture --------------------------------------------
\* db_local = Database(settings.LOCAL_DATABASE_URI)
OpenLocal ==
    /\ entry = "collect_poi_overture" /\ pc = "start"
    /\ conn' = [conn EXCEPT !.db_local = "open"]
    /\ pc' = "open_remote"
    /\ UNCHANGED <<entry, raised, loopVars, placesVars, transitVars, filterVars,
                   addressVars>>

\* db_remote = Database(settings.RAW_DATABASE_URI)
OpenRemote ==
    /\ entry = "collect_poi_overture" /\ pc = "open_remote"
    /\ conn' = [conn EXCEPT !.db_remote = "open"]
    /\ pc' = "run"
    /\ UNCHANGED <<entry, raised, loopVars, placesVars, transitVars, filterVars,
                   addressVars>>

\* OverturePOICollection(...).run() up to the clip loop: the Sedona context,
\* the data source, the staging tables, the bounding box, the bulk load, the
\* region query and the creation of the empty output table.  Any of these
\* steps may raise; the exception leaves run() and reaches the handler of
\* collect_poi_overture.
RunSetup ==
    /\ entry = "collect_poi_overture" /\ pc = "run"
    /\ \E ok \in BOOLEAN :
         IF ok
         THEN /\ pc' = AfterPolygon(0, "exec", "convert")
              /\ index' = 1
              /\ places' = EmptyBag
              /\ raised' = raised
         ELSE /\ pc' = "except"
              /\ raised' = TRUE
              /\ UNCHANGED <<index, places>>
    /\ UNCHANGED <<entry, conn, region_geoms, places_raw, bad_geoms, pending, txn,
                   committed_polys, rolled_polys, order, pkey, transitVars,
                   filterVars, addressVars>>

\* cur.execute(clip_poi_overture) for polygon index: the statement runs in
\* the connection's transaction, opening one when none is open.  It writes
\* new_pois(index) into it, or it raises and leaves the transaction aborted;
\* in an aborted transaction every statement raises.
Execute ==
    /\ entry = "collect_poi_overture" /\ pc = "exec"
    /\ order' = Append(order, index)
    /\ IF index \notin bad_geoms /\ txn # "aborted"
       THEN /\ txn' = "open"
            /\ pending' = pending (+) new_pois(index)
            /\ pc' = "commit"
       ELSE /\ txn' = "aborted"
            /\ pending' = pending
            /\ pc' = "rollback"
    /\ UNCHANGED <<entry, conn, raised, loopVars, places_raw, bad_geoms, places,
                   committed_polys, rolled_polys, pkey, transitVars, filterVars,
                   addressVars>>

\* Commit with the per-polygon commit left out: the rows stay in the open
\* transaction when the loop moves on.
CommitDeferred ==
    /\ entry = "collect_poi_overture" /\ pc = "commit"
    /\ committed_polys' = committed_polys \cup {index}
    /\ index' = index + 1
    /\ pc' = AfterPolygon(index, "exec", "convert")
    /\ UNCHANGED <<entry, conn, raised, region_geoms, places_raw, bad_geoms, places,
                   pending, txn, rolled_polys, order, pkey, transitVars,
                   filterVars, addressVars>>

\* self.db_local.conn.commit(), then the next iteration.
Commit ==
    /\ entry = "collect_poi_overture" /\ pc = "commit"
    /\ places' = places (+) pending
    /\ pending' = EmptyBag
    /\ txn' = "idle"
    /\ committed_polys' = committed_polys \cup {index}
    /\ index' = index + 1
    /\ pc' = AfterPolygon(index, "exec", "convert")
    /\ UNCHANGED <<entry, conn, raised, region_geoms, places_raw, bad_geoms,
                   rolled_polys, order, pkey, transitVars, filterVars, addressVars>>

\* Rollback with conn.rollback() left out of the handler: the error is
\* printed and the loop moves on with the transaction still aborted.
RollbackMissing ==
    /\ entry = "collect_poi_overture" /\ pc = "rollback"
    /\ index' = index + 1
    /\ pc' = AfterPolygon(index, "exec", "convert")
    /\ UNCHANGED <<entry, conn, raised, region_geoms, places_raw, bad_geoms, places,
                   pending, txn, committed_polys, rolled_polys, order, pkey,
                   transitVars, filterVars, addressVars>>

\* except Exception: print, self.db_local.conn.rollback(), then the next
\* iteration.
Rollback ==
    /\ entry = "collect_poi_overture" /\ pc = "rollback"
    /\ pending' = EmptyBag
    /\ txn' = "idle"
    /\ rolled_polys' = rolled_polys \cup {index}
    /\ index' = index + 1
    /\ pc' = AfterPolygon(index, "exec", "convert")
    /\ UNCHANGED <<entry, conn, raised, region_geoms, places_raw, bad_geoms, places,
                   committed_polys, order, pkey, transitVars, filterVars,
                   addressVars>>

\* cur.close(); perform(convert_to_regular_table_sql): ADD PRIMARY KEY (id)
\* is accepted by the database only when no id occurs twice.
Convert ==
    /\ entry = "collect_poi_overture" /\ pc = "convert"
    /\ pkey' = IF perform(UniqueIds(places)) = "committed" THEN "added" ELSE "failed"
    /\ pc' = "close_try"
    /\ UNCHANGED <<entry, conn, raised, loopVars, places_raw, bad_geoms, places,
                   pending, txn, committed_polys, rolled_polys, order, transitVars, filterVars,
                   addressVars>>

\* try: ... db_local.close(); db_remote.close()
CloseTry ==
    /\ entry = "collect_poi_overture" /\ pc = "close_try"
    /\ conn' = [conn EXCEPT !.db_local = "closed", !.db_remote = "closed"]
    /\ pc' = "finally"
    /\ UNCHANGED <<entry, raised, loopVars, placesVars, transitVars, filterVars,
                   addressVars>>

\* except Exception as e: print_error(e); raise e
Except ==
    /\ entry = "collect_poi_overture" /\ pc = "except"
    /\ pc' = "finally"
    /\ UNCHANGED <<entry, conn, raised, loopVars, placesVars, transitVars,
                   filterVars, addressVars>>

\* finally: db_local.close(); db_remote.close()
Finally ==
    /\ entry = "collect_poi_overture" /\ pc = "finally"
    /\ conn' = [conn EXCEPT !.db_local = "closed", !.db_remote = "closed"]
    /\ pc' = IF raised THEN "propagated" ELSE "returned"
    /\ UNCHANGED <<entry, raised, loopVars, placesVars, transitVars, filterVars,
                   addressVars>>

\* =========================================================== transit ====
\* Stop identifiers are texts (GTFS stop_id is free text).
S_AB == <<"a", ",", "b">>
S_C  == <<"c">>
StopIds == {S_AB, S_C}
StopNames == {"Hauptbahnhof", "Markt"}
\* The route-type sets a stop's trips carry in stop_times_optimized (the
\* rows of the stop's own h3_3 partition).
StopRouteSets == {{}, {2}, {2, 5}, {5, 7}}

\* data_config_preparation['classification']['gtfs_route_types']
gtfs_route_types == [r \in {2, 5} |-> IF r = 2 THEN "rail" ELSE "cable_tram"]

\* WITH parent_station_name: stops without a parent that intersect g.
parent_station_name(g) ==
    {p \in DOMAIN stops : g \in stops[p].hits /\ stops[p].parent_station = NULL}

\* WITH clipped_gfts_stops (pass 1): the children intersecting g joined to
\* their parent row; name is the parent's stop_name.
clipped_gfts_stops1(g) ==
    {[name |-> stops[p].stop_name, stop_id |-> s,
      parent_station |-> stops[s].parent_station] :
        <<s, p>> \in {sp \in (DOMAIN stops) \X parent_station_name(g) :
                        /\ g \in stops[sp[1]].hits
                        /\ stops[sp[1]].parent_station # NULL
                        /\ stops[sp[1]].parent_station = sp[2]}}

\* WITH clipped_gfts_stops (pass 2): the remaining stations intersecting g.
clipped_gfts_stops2(g) ==
    {[name |-> stops[s].stop_name, stop_id |-> s, parent_station |-> NULL] :
        s \in {t \in remaining_stations : g \in stops[t].hits}}

\* The lateral subquery j for one clipped stop: the stop's distinct route
\* types that are keys of the classification, each mapped to its category.
\* ORDER BY r.route_type orders the rows; the subquery has no LIMIT, so
\* every one of them is joined to the stop.
lateral_route_types(stop_id) ==
    {r \in stop_times[stop_id] : r \in DOMAIN gtfs_route_types}

\* WITH categorized_gtfs_stops: clipped CROSS JOIN LATERAL j.  rt keeps the
\* rows of one stop apart when two route types map to the same category.
categorized_gtfs_stops(clipped) ==
    {[category |-> gtfs_route_types[cr[2]], name |-> cr[1].name,
      stop_id |-> cr[1].stop_id, parent_station |-> cr[1].parent_station,
      rt |-> cr[2]] :
        cr \in {x \in clipped \X DOMAIN gtfs_route_types :
                  x[2] \in lateral_route_types(x[1].stop_id)}}

\* SELECT ... GROUP BY route_type, tags ->> 'parent_station', name: one
\* output row per group, ARRAY_AGG(stop_id) as a bag; the aggregated
\* geometry is omitted.
grouped_rows(cat) ==
    LET keys == {[category |-> c.category, parent_station |-> c.parent_station,
                  name |-> c.name] : c \in cat}
        group(k) == {c \in cat : /\ c.category = k.category
                                 /\ c.parent_station = k.parent_station
                                 /\ c.name = k.name}
        agg(k) == [s \in {c.stop_id : c \in group(k)} |->
                     Cardinality({c \in group(k) : c.stop_id = s})]
    IN  {[category |-> k.category, name |-> k.name, source |-> NULL,
          parent_station |-> k.parent_station, stop_id |-> agg(k)] : k \in keys}

\* The rows classify_gtfs_stop_sql inserts for polygon g in each pass.
pass1_rows(g) == grouped_rows(categorized_gtfs_stops(clipped_gfts_stops1(g)))
pass2_rows(g) == grouped_rows(categorized_gtfs_stops(clipped_gfts_stops2(g)))

\* string_to_array(text, ','): the pieces of text between its commas.
string_to_array(t) ==
    LET cuts == {0, Len(t) + 1} \cup {i \in 1..Len(t) : t[i] = ","}
    IN  {SubSeq(t, ab[1] + 1, ab[2] - 1) :
           ab \in {x \in cuts \X cuts :
                     /\ x[1] < x[2]
                     /\ \A c \in cuts : ~(x[1] < c /\ c < x[2])}}

\* WITH processed_staions: unnest(string_to_array(tags ->> 'parent_station',
\* ',')) UNION jsonb_array_elements_text(tags -> 'extended_source' -> 'stop_id')
processed_staions ==
    UNION {(IF row.parent_station = NULL THEN {}
            ELSE string_to_array(row.parent_station))
           \cup BagToSet(row.stop_id) : row \in BagToSet(poi_stop)}

\* SELECT s.* FROM basic.stops s LEFT JOIN processed_staions ps
\* ON s.stop_id = ps.stop_id WHERE ps.stop_id IS NULL
remaining_stops_sql == {s \in DOMAIN stops : s \notin processed_staions}

\* ---- prepare_public_transport_stop ------------------------------------
\* db_rd = Database(settings.RAW_DATABASE_URI)
OpenRd ==
    /\ entry = "prepare_public_transport_stop" /\ pc = "start"
    /\ conn' = [conn EXCEPT !.db_rd = "open"]
    /\ pc' = "construct"
    /\ UNCHANGED <<entry, raised, loopVars, placesVars, transitVars, filterVars,
                   addressVars>>

\* PublicTransportStopPreparation(db=db_rd, region=region): loads the
\* region's configuration, which may raise.  No handler encloses it.
Construct ==
    /\ entry = "prepare_public_transport_stop" /\ pc = "construct"
    /\ \E ok \in BOOLEAN : pc' = IF ok THEN "select" ELSE "propagated"
    /\ UNCHANGED <<entry, conn, raised, loopVars, placesVars, transitVars,
                   filterVars, addressVars>>

\* run(): region_geoms = self.db.select(region query), which may raise, then
\* the creation of the empty output table.
SelectGeoms ==
    /\ entry = "prepare_public_transport_stop" /\ pc = "select"
    /\ \E ok \in BOOLEAN :
         IF ok
         THEN /\ pc' = AfterPolygon(0, "pass1", "remaining")
              /\ index' = 1
              /\ poi_stop' = EmptyBag
         ELSE /\ pc' = "propagated"
              /\ UNCHANGED <<index, poi_stop>>
    /\ UNCHANGED <<entry, conn, raised, region_geoms, placesVars, stops, stop_times,
                   remaining_stations, failed, attempted, filterVars, addressVars>>

\* Pass1Step with a failing INSERT leaving the loop and the run.
Pass1StepAbort ==
    /\ entry = "prepare_public_transport_stop" /\ pc = "pass1"
    /\ attempted' = attempted \cup {<<1, index>>}
    /\ \E ok \in BOOLEAN :
         IF perform(ok) = "committed"
         THEN /\ poi_stop' = poi_stop (+) SetToBag(pass1_rows(index))
              /\ failed' = failed
              /\ index' = IF index < region_geoms THEN index + 1 ELSE 1
              /\ pc' = AfterPolygon(index, "pass1", "remaining")
         ELSE /\ poi_stop' = poi_stop
              /\ failed' = failed \cup {<<1, index>>}
              /\ index' = index
              /\ pc' = "propagated"
    /\ UNCHANGED <<entry, conn, raised, region_geoms, placesVars, stops, stop_times,
                   remaining_stations, filterVars, addressVars>>

\* One iteration of the pass-1 loop: perform(classify_gtfs_stop_sql).
Pass1Step ==
    /\ entry = "prepare_public_transport_stop" /\ pc = "pass1"
    /\ attempted' = attempted \cup {<<1, index>>}
    /\ \E ok \in BOOLEAN :
         IF perform(ok) = "committed"
         THEN /\ poi_stop' = poi_stop (+) SetToBag(pass1_rows(index))
              /\ failed' = failed
         ELSE /\ poi_stop' = poi_stop
              /\ failed' = failed \cup {<<1, index>>}
    /\ index' = IF index < region_geoms THEN index + 1 ELSE 1
    /\ pc' = AfterPolygon(index, "pass1", "remaining")
    /\ UNCHANGED <<entry, conn, raised, region_geoms, placesVars, stops, stop_times,
                   remaining_stations, filterVars, addressVars>>

\* perform(remaining_stops_sql), once, between the passes.
RemainingStops ==
    /\ entry = "prepare_public_transport_stop" /\ pc = "remaining"
    /\ remaining_stations' = remaining_stops_sql
    /\ index' = 1
    /\ pc' = AfterPolygon(0, "pass2", "close")
    /\ UNCHANGED <<entry, conn, raised, region_geoms, placesVars, stops, stop_times,
                   poi_stop, failed, attempted, filterVars, addressVars>>

\* One iteration of the pass-2 loop: perform(classify_gtfs_stop_sql).
Pass2Step ==
    /\ entry = "prepare_public_transport_stop" /\ pc = "pass2"
    /\ attempted' = attempted \cup {<<2, index>>}
    /\ \E ok \in BOOLEAN :
         IF perform(ok) = "committed"
         THEN /\ poi_stop' = poi_stop (+) SetToBag(pass2_rows(index))
              /\ failed' = failed
         ELSE /\ poi_stop' = poi_stop
              /\ failed' = failed \cup {<<2, index>>}
    /\ index' = index + 1
    /\ pc' = AfterPolygon(index, "pass2", "close")
    /\ UNCHANGED <<entry, conn, raised, region_geoms, placesVars, stops, stop_times,
                   remaining_stations, filterVars, addressVars>>

\* db_rd.conn.close(), the entry point's last statement.
CloseRd ==
    /\ entry = "prepare_public_transport_stop" /\ pc = "close"
    /\ conn' = [conn EXCEPT !.db_rd = "closed"]
    /\ pc' = "returned"
    /\ UNCHANGED <<entry, raised, loopVars, placesVars, transitVars, filterVars,
                   addressVars>>

\* ============================================================= Spec =====
NoPlaces ==
    /\ places_raw = [i \in {} |-> {}]
    /\ bad_geoms = {}
NoTransit ==
    /\ stops = [s \in {} |-> {}]
    /\ stop_times = [s \in {} |-> {}]
NoFilter ==
    /\ bbox_coords = [xmin |-> 0, ymin |-> 0, xmax |-> 0, ymax |-> 0]
    /\ places_df = {}
    /\ region_places = {}
NoAddress ==
    /\ address = NULL /\ street = NULL /\ housenumber = NULL

StopRows ==
    [parent_station : {NULL} \cup StopIds, stop_name : StopNames, hits : SUBSET Polys]

InitCommon ==
    /\ pc = "start"
    /\ conn = [db_local |-> "unopened", db_remote |-> "unopened", db_rd |-> "unopened"]
    /\ raised = FALSE
    /\ index = 0
    /\ places = EmptyBag /\ pending = EmptyBag /\ txn = "idle"
    /\ committed_polys = {} /\ rolled_polys = {} /\ order = <<>> /\ pkey = "none"
    /\ poi_stop = EmptyBag /\ remaining_stations = {}
    /\ failed = {} /\ attempted = {}

Init ==
    /\ region_geoms \in 0..MaxPolys
    /\ InitCommon
    /\ NoFilter /\ NoAddress
    /\ \/ /\ entry = "collect_poi_overture"
          /\ places_raw \in [PlaceIds -> SUBSET Polys]
          /\ bad_geoms \in SUBSET Polys
          /\ NoTransit
       \/ /\ entry = "prepare_public_transport_stop"
          /\ stops \in {f \in [StopIds -> StopRows] :
                          /\ \A s \in StopIds : f[s].parent_station # s
                          /\ f[S_AB].stop_name = "Hauptbahnhof"}
          /\ stop_times \in [StopIds -> StopRouteSets]
          /\ NoPlaces

Next ==
    \/ OpenLocal \/ OpenRemote \/ RunSetup \/ Execute \/ Commit \/ Rollback
    \/ Convert \/ CloseTry \/ Except \/ Finally
    \/ OpenRd \/ Construct \/ SelectGeoms \/ Pass1Step \/ RemainingStops
    \/ Pass2Step \/ CloseRd

Spec == Init /\ [][Next]_vars

\* ======================================================= SpecFilter ====
Coords == 0..MaxCoord
\* A row's bbox struct; minx <= maxx and miny <= maxy as for any envelope.
Boxes ==
    {b \in [minx : Coords, miny : Coords, maxx : Coords, maxy : Coords] :
        b.minx <= b.maxx /\ b.miny <= b.maxy}
\* get_region_bbox_coords: the envelope of the region's union.
RegionBoxes ==
    {b \in [xmin : Coords, ymin : Coords, xmax : Coords, ymax : Coords] :
        b.xmin < b.xmax /\ b.ymin < b.ymax}
FilterIds == {"p1", "p2"}

\* The filter with the upper limits compared by <=.
filter_inclusive(df, bc) ==
    {[id |-> i] : i \in {j \in DOMAIN df :
        /\ df[j].minx > bc.xmin
        /\ df[j].miny > bc.ymin
        /\ df[j].maxx <= bc.xmax
        /\ df[j].maxy <= bc.ymax}}

\* places_df.filter(...) followed by drop(bbox); the conversions of the
\* other columns change no row's identity and are omitted.
filter_region_places(df, bc) ==
    {[id |-> i] : i \in {j \in DOMAIN df :
        /\ df[j].minx > bc.xmin
        /\ df[j].miny > bc.ymin
        /\ df[j].maxx < bc.xmax
        /\ df[j].maxy < bc.ymax}}

\* region_places = self.filter_region_places(bbox_coords)
FilterRegionPlaces ==
    /\ entry = "filter_region_places" /\ pc = "start"
    /\ region_places' = filter_region_places(places_df, bbox_coords)
    /\ pc' = "done"
    /\ UNCHANGED <<entry, conn, raised, loopVars, placesVars, transitVars,
                   bbox_coords, places_df, addressVars>>

InitFilter ==
    /\ entry = "filter_region_places"
    /\ region_geoms = 0
    /\ InitCommon /\ NoPlaces /\ NoTransit /\ NoAddress
    /\ bbox_coords \in RegionBoxes
    /\ places_df \in [FilterIds -> Boxes]
    /\ region_places = {}

NextFilter == FilterRegionPlaces

SpecFilter == InitFilter /\ [][NextFilter]_vars

\* ====================================================== SpecAddress ====
AddrChars == {"a", " ", "1"}
Addresses == UNION {[1..n -> AddrChars] : n \in 0..MaxAddrLen}
IsSpace(c) == c = " "       \* \s
IsDigit(c) == c = "1"       \* \d

\* The positions of t where a whitespace character is followed by a digit.
SpaceDigit(t) == {i \in 1..(Len(t) - 1) : IsSpace(t[i]) /\ IsDigit(t[i + 1])}

\* substring(t from '^(.*)(?=\s\d)'): the greedy .* takes the longest prefix
\* that is followed by whitespace and a digit; NULL when there is none.
substring_street(t) ==
    IF t = NULL \/ SpaceDigit(t) = {} THEN NULL
    ELSE SubSeq(t, 1, Max(SpaceDigit(t)) - 1)

\* substring(t from '(\s\d.*)$'): the match starts at the leftmost
\* whitespace-digit position and runs to the end; NULL when there is none.
substring_housenumber(t) ==
    IF t = NULL \/ SpaceDigit(t) = {} THEN NULL
    ELSE SubSeq(t, Min(SpaceDigit(t)), Len(t))

\* TRIM(t): t without its leading and trailing spaces.
Trim(t) ==
    IF t = NULL THEN NULL
    ELSE LET keep == {i \in 1..Len(t) : t[i] # " "}
         IN  IF keep = {} THEN <<>> ELSE SubSeq(t, Min(keep), Max(keep))

\* The street and housenumber columns of one clip_poi_overture output row.
SplitAddress ==
    /\ entry = "clip_poi_overture" /\ pc = "start"
    /\ street' = Trim(substring_street(address))
    /\ housenumber' = Trim(substring_housenumber(address))
    /\ pc' = "done"
    /\ UNCHANGED <<entry, conn, raised, loopVars, placesVars, transitVars,
                   filterVars, address>>

InitAddress ==
    /\ entry = "clip_poi_overture"
    /\ region_geoms = 0
    /\ InitCommon /\ NoPlaces /\ NoTransit /\ NoFilter
    /\ address \in Addresses \cup {NULL}
    /\ street = NULL /\ housenumber = NULL

NextAddress == SplitAddress

SpecAddress == InitAddress /\ [][NextAddress]_vars

\* ============================================================ claims ====
\* The places clip loop has ended and run() goes on normally.
PlacesLoopDone ==
    /\ entry = "collect_poi_overture"
    /\ \/ pc \in {"convert", "close_try"}
       \/ pc \in {"finally", "returned"} /\ ~raised

\* C1: in the places clip loop, whatever subset of polygons is rejected by
\* the database, each rejected polygon's transaction is rolled back, the
\* loop goes on to the next polygon (every polygon is attempted, in order),
\* and after the loop temporal.places_<region> holds exactly the rows
\* inserted for the polygons that were not rejected.
C1_PartialResult ==
    /\ entry = "collect_poi_overture" =>
         \A g \in bad_geoms : g < index => g \in rolled_polys /\ g \notin committed_polys
    /\ PlacesLoopDone =>
         /\ order = [k \in 1..region_geoms |-> k]
         /\ rolled_polys = bad_geoms
         /\ committed_polys = Polys \ bad_geoms
         /\ places = RowsOf(Polys \ bad_geoms)
         /\ pending = EmptyBag /\ txn = "idle"

\* C1 witness: [P1, P2] with P1 rejected and P2 inserting rows, after the run.
C1_Witness ==
    /\ entry = "collect_poi_overture" /\ pc = "returned"
    /\ region_geoms = 2 /\ bad_geoms = {1}
    /\ new_pois(1) # EmptyBag /\ new_pois(2) # EmptyBag
    /\ places = new_pois(2)

\* C2: after the places clip loop every id occurs in at most one row of
\* temporal.places_<region>, and ADD PRIMARY KEY (id) succeeds.
C2_UniqueIds ==
    (entry = "collect_poi_overture" /\ pc \in {"close_try", "finally", "returned"}
       /\ ~raised)
    => UniqueIds(places) /\ pkey = "added"

\* C4: when an entry point has returned or propagated an exception, every
\* connection it opened is closed.
C4_ConnectionsClosed ==
    pc \in {"returned", "propagated"} =>
        \A c \in DOMAIN conn : conn[c] # "open"

\* One step of the places clip loop, as seen from the connection.
C10_Step ==
    /\ places \sqsubseteq places'
    /\ order' # order =>
         /\ order' = Append(order, Len(order) + 1)
         /\ txn = "idle" /\ pending = EmptyBag
         /\ 1..Len(order) \subseteq committed_polys \cup rolled_polys
    /\ committed_polys' # committed_polys => txn = "open" /\ txn' = "idle"
    /\ rolled_polys' # rolled_polys => txn = "aborted" /\ txn' = "idle"
\* C10: polygons are processed in iteration order with at most one
\* transaction at a time: an INSERT is issued only when no transaction is
\* open and the previous polygon's transaction has ended by commit or
\* rollback, and rows committed for earlier polygons are never undone.
C10_Sequential == [][C10_Step]_vars

\* C10 witness: rows committed for polygon 1 are in the table after polygon 2
\* was rejected and rolled back.
C10_Witness ==
    /\ entry = "collect_poi_overture"
    /\ 1 \in committed_polys /\ 2 \in rolled_polys
    /\ new_pois(1) # EmptyBag /\ places = new_pois(1)

\* ---- transit -----------------------------------------------------------
\* The output rows (with multiplicity) whose stop_id array holds stop s.
RECURSIVE CountRows(_, _)
CountRows(rows, s) ==
    IF rows = {} THEN 0
    ELSE LET row == CHOOSE x \in rows : TRUE
         IN  (IF s \in BagToSet(row.stop_id) THEN CopiesIn(row, poi_stop) ELSE 0)
             + CountRows(rows \ {row}, s)

\* C5: an output row that holds a stop carries the category mapped from the
\* lowest route type of that stop that the classification maps.
C5_LowestRouteTypeWins ==
    \A row \in BagToSet(poi_stop) : \A s \in BagToSet(row.stop_id) :
        row.category = gtfs_route_types[Min(lateral_route_types(s))]

\* C6: after pass 1, a child stop's identifier is in the stop_id array of at
\* most one output row (exactly one when it was inserted).
C6_ChildInOneRow ==
    (entry = "prepare_public_transport_stop" /\ pc = "remaining") =>
        \A s \in DOMAIN stops :
            stops[s].parent_station # NULL => CountRows(BagToSet(poi_stop), s) <= 1

\* The rows pass 1 inserted: the ones carrying a parent_station tag.
Pass1Output == {row \in BagToSet(poi_stop) : row.parent_station # NULL}

\* C7: remaining_stations is basic.stops minus the stops referenced by the
\* pass-1 output as parent_station or as an element of a stop_id array.
C7_SetDifference ==
    (entry = "prepare_public_transport_stop" /\ pc \in {"pass2", "close", "returned"}) =>
        \A s \in DOMAIN stops :
            s \in remaining_stations <=>
                \A row \in Pass1Output :
                    row.parent_station # s /\ s \notin BagToSet(row.stop_id)

RECURSIVE Pass1Sum(_)
Pass1Sum(S) ==
    IF S = {} THEN EmptyBag
    ELSE LET g == CHOOSE y \in S : TRUE
         IN  SetToBag(pass1_rows(g)) (+) Pass1Sum(S \ {g})
RECURSIVE Pass2Sum(_)
Pass2Sum(S) ==
    IF S = {} THEN EmptyBag
    ELSE LET g == CHOOSE y \in S : TRUE
         IN  SetToBag(pass2_rows(g)) (+) Pass2Sum(S \ {g})

InBox(b, bc) ==
    bc.xmin < b.minx /\ bc.ymin < b.miny /\ b.maxx < bc.xmax /\ b.maxy < bc.ymax
OnBoundary(b, bc) ==
    b.minx = bc.xmin \/ b.miny = bc.ymin \/ b.maxx = bc.xmax \/ b.maxy = bc.ymax

\* C3: filter_region_places returns exactly the source rows whose bounding
\* box lies strictly inside (xmin, ymin, xmax, ymax); a row with a coordinate
\* equal to the corresponding limit is excluded.
C3_StrictContainment ==
    (entry = "filter_region_places" /\ pc = "done") =>
        /\ \A row \in region_places : row.id \in DOMAIN places_df
        /\ \A i \in DOMAIN places_df :
             /\ [id |-> i] \in region_places <=> InBox(places_df[i], bbox_coords)
             /\ OnBoundary(places_df[i], bbox_coords) => [id |-> i] \notin region_places

\* C3 witness: one row is kept, and a row that touches the upper x limit and
\* is otherwise inside is dropped.
C3_Witness ==
    /\ entry = "filter_region_places" /\ pc = "done"
    /\ [id |-> "p1"] \in region_places
    /\ [id |-> "p2"] \notin region_places
    /\ places_df["p2"].maxx = bbox_coords.xmax
    /\ places_df["p2"].minx > bbox_coords.xmin
    /\ places_df["p2"].miny > bbox_coords.ymin
    /\ places_df["p2"].maxy < bbox_coords.ymax

\* C9: the address is cut at its first whitespace-digit position: street is
\* the trimmed text before it and housenumber the trimmed text from it on.
C9_SplitAtFirst ==
    (entry = "clip_poi_overture" /\ pc = "done"
       /\ address # NULL /\ SpaceDigit(address) # {})
    => LET cut == Min(SpaceDigit(address))
       IN  /\ street = Trim(SubSeq(address, 1, cut - 1))
           /\ housenumber = Trim(SubSeq(address, cut, Len(address)))

====
